---------------------------- MODULE Spec2Model ----------------------------
(***************************************************************************)
(* Model of the "Dungeons and Money" player-state API (src/src/main.rs).   *)
(*                                                                         *)
(* Two handlers take a request {playerState: <base64>} for a user id:      *)
(*   vulnerable_state_update : base64 decode -> serde_json::from_slice     *)
(*       into VulnerablePlayerState -> 200 with escalation alerts          *)
(*   secure_state_update     : base64 decode -> serde_json::from_slice     *)
(*       into SecurePlayerState (deny_unknown_fields) -> items[2] > 20     *)
(*       check -> 200                                                      *)
(*                                                                         *)
(* Text is modelled at the byte level.  A String is a sequence of          *)
(* one-character strings, a byte vector a sequence of integers 0..255.     *)
(* The base64 engine and the serde_json deserializer are modelled by what  *)
(* they compute on those sequences.                                        *)
(***************************************************************************)
EXTENDS Integers, Sequences, FiniteSets, TLC

(***************************************************************************)
(* Characters and bytes                                                    *)
(***************************************************************************)

\* The character of code 96 (the grave accent serde's messages quote names with),
\* which a TLA+ string literal cannot hold.
Backtick == "<grave>"

\* The printable ASCII characters, code 32 (space) to 126 (~), in code order.
Printable ==
    << " ", "!", "\"", "#", "$", "%", "&", "'", "(", ")", "*", "+", ",", "-", ".", "/",
       "0", "1", "2", "3", "4", "5", "6", "7", "8", "9", ":", ";", "<", "=", ">", "?",
       "@", "A", "B", "C", "D", "E", "F", "G", "H", "I", "J", "K", "L", "M", "N", "O",
       "P", "Q", "R", "S", "T", "U", "V", "W", "X", "Y", "Z", "[", "\\", "]", "^", "_",
       Backtick, "a", "b", "c", "d", "e", "f", "g", "h", "i", "j", "k", "l", "m", "n", "o",
       "p", "q", "r", "s", "t", "u", "v", "w", "x", "y", "z", "{", "|", "}", "~" >>

\* The byte (ASCII code) of each printable character.
OrdTable == [ c \in { Printable[i] : i \in 1..Len(Printable) } |-> 31 + (CHOOSE i \in 1..Len(Printable) : Printable[i] = c) ]

Ord(c) == OrdTable[c]

\* The bytes of a String of printable characters (str::as_bytes).
Bytes(s) == [ i \in 1..Len(s) |-> Ord(s[i]) ]

\* The characters of a byte vector that holds printable ASCII only.
Chars(b) == [ i \in 1..Len(b) |-> Printable[b[i] - 31] ]

(***************************************************************************)
(* base64::engine::general_purpose::STANDARD                               *)
(* (alphabet A-Z a-z 0-9 + /, canonical '=' padding required, non-zero     *)
(* trailing bits rejected)                                                 *)
(***************************************************************************)

B64Alphabet ==
    << "A", "B", "C", "D", "E", "F", "G", "H", "I", "J", "K", "L", "M", "N", "O", "P",
       "Q", "R", "S", "T", "U", "V", "W", "X", "Y", "Z", "a", "b", "c", "d", "e", "f",
       "g", "h", "i", "j", "k", "l", "m", "n", "o", "p", "q", "r", "s", "t", "u", "v",
       "w", "x", "y", "z", "0", "1", "2", "3", "4", "5", "6", "7", "8", "9", "+", "/" >>

B64Set == { B64Alphabet[i] : i \in 1..Len(B64Alphabet) }

B64ValTable == [ c \in B64Set |-> (CHOOSE i \in 1..Len(B64Alphabet) : B64Alphabet[i] = c) - 1 ]

B64Val(c) == B64ValTable[c]

\* Number of trailing '=' characters of s.
RECURSIVE TrailingPad(_)
TrailingPad(s) ==
    IF s # << >> /\ s[Len(s)] = "="
    THEN 1 + TrailingPad(SubSeq(s, 1, Len(s) - 1))
    ELSE 0

\* The bytes of the sextets q (1..4 of them, a whole or a final partial group).
GroupBytes(q) ==
    LET n  == Len(q)
        v1 == q[1]
        v2 == IF n >= 2 THEN q[2] ELSE 0
        v3 == IF n >= 3 THEN q[3] ELSE 0
        v4 == IF n >= 4 THEN q[4] ELSE 0
        b1 == v1 * 4 + v2 \div 16
        b2 == (v2 % 16) * 16 + v3 \div 4
        b3 == (v3 % 4) * 64 + v4
    IN  IF n = 4 THEN << b1, b2, b3 >>
        ELSE IF n = 3 THEN << b1, b2 >>
        ELSE << b1 >>

RECURSIVE DecodeSextets(_)
DecodeSextets(q) ==
    IF q = << >> THEN << >>
    ELSE IF Len(q) <= 4 THEN GroupBytes(q)
    ELSE GroupBytes(SubSeq(q, 1, 4)) \o DecodeSextets(SubSeq(q, 5, Len(q)))

\* A decoder that does not insist on the padding (the NO_PAD-tolerant
\* engine), against which the properties of the decoding step are tried.
DecodeDataLenient(data, pad) ==
    IF \E i \in 1..Len(data) : data[i] \notin B64Set
      THEN [ok |-> FALSE, err |-> "InvalidByte"]
    ELSE IF pad > 2 \/ Len(data) % 4 = 1
      THEN [ok |-> FALSE, err |-> "InvalidLength"]
    ELSE [ok |-> TRUE, bytes |-> DecodeSextets([ i \in 1..Len(data) |-> B64Val(data[i]) ])]

\* decode, given the text before its padding and the number of '=' after it.
DecodeData(data, pad) ==
    IF \E i \in 1..Len(data) : data[i] \notin B64Set
      THEN [ok |-> FALSE, err |-> "InvalidByte"]
    ELSE IF pad > 2
      THEN [ok |-> FALSE, err |-> "InvalidByte"]
    ELSE IF Len(data) % 4 = 1
      THEN [ok |-> FALSE, err |-> "InvalidLength"]
    ELSE IF (Len(data) + pad) % 4 # 0
      THEN [ok |-> FALSE, err |-> "InvalidPadding"]
    ELSE IF (Len(data) % 4 = 2 /\ B64Val(data[Len(data)]) % 16 # 0)
            \/ (Len(data) % 4 = 3 /\ B64Val(data[Len(data)]) % 4 # 0)
      THEN [ok |-> FALSE, err |-> "InvalidLastSymbol"]
    ELSE [ok |-> TRUE, bytes |-> DecodeSextets([ i \in 1..Len(data) |-> B64Val(data[i]) ])]

\* The text s without its last n characters.
DropLast(s, n) == SubSeq(s, 1, Len(s) - n)

\* STANDARD.decode(text): [ok |-> TRUE, bytes |-> ...] or [ok |-> FALSE, err |-> kind].
B64Decode(s) == DecodeData(DropLast(s, TrailingPad(s)), TrailingPad(s))

\* The sextets of 1..3 bytes (the client side of the encoding).
GroupSextets(b) ==
    LET n  == Len(b)
        b1 == b[1]
        b2 == IF n >= 2 THEN b[2] ELSE 0
        b3 == IF n >= 3 THEN b[3] ELSE 0
        q  == << b1 \div 4, (b1 % 4) * 16 + b2 \div 16, (b2 % 16) * 4 + b3 \div 64, b3 % 64 >>
        c  == [ i \in 1..4 |-> B64Alphabet[q[i] + 1] ]
    IN  IF n = 3 THEN c
        ELSE IF n = 2 THEN << c[1], c[2], c[3], "=" >>
        ELSE << c[1], c[2], "=", "=" >>

\* STANDARD.encode(bytes), as the client produces the playerState text.
RECURSIVE B64Encode(_)
B64Encode(b) ==
    IF b = << >> THEN << >>
    ELSE IF Len(b) <= 3 THEN GroupSextets(b)
    ELSE GroupSextets(SubSeq(b, 1, 3)) \o B64Encode(SubSeq(b, 4, Len(b)))

(***************************************************************************)
(* serde_json::Deserializer over a byte slice.                             *)
(* i is the number of bytes consumed; b[i + 1] is the next byte.           *)
(* A result is [ok |-> TRUE, val, i] or [ok |-> FALSE, code, at]: the      *)
(* error's text and the byte index its line and column are taken from.     *)
(***************************************************************************)

Ok(v, i) == [ok |-> TRUE, val |-> v, i |-> i]

\* self.error(code): the position is that of the bytes consumed so far.
Err(code, at) == [ok |-> FALSE, code |-> code, at |-> at]

\* self.peek_error(code): the position is that of the byte peeked at.
PeekErr(b, i, code) == Err(code, IF i + 1 <= Len(b) THEN i + 1 ELSE Len(b))

\* The next byte, -1 at the end of the input.
Peek(b, i) == IF i < Len(b) THEN b[i + 1] ELSE -1

\* The text of a byte inside a string (a placeholder for a non-printable one).
Chr(c) == IF c >= 32 /\ c <= 126 THEN Printable[c - 31] ELSE "<" \o ToString(c) \o ">"

\* A name as serde quotes it in a message.
Quoted(name) == Backtick \o name \o Backtick

\* A sequence of one-character strings as one string.
RECURSIVE Str(_)
Str(cs) == IF cs = << >> THEN "" ELSE cs[1] \o Str(Tail(cs))

WhiteSpace == { Ord(" "), 10, 9, 13 }

Digits == { Ord("0") + d : d \in 0..9 }

HexDigits == Digits \cup { Ord("a") + d : d \in 0..5 } \cup { Ord("A") + d : d \in 0..5 }

HexVal(c) ==
    IF c \in Digits THEN c - Ord("0")
    ELSE IF c >= Ord("a") THEN c - Ord("a") + 10
    ELSE c - Ord("A") + 10

\* parse_whitespace: the index after the white space at i.
RECURSIVE SkipWs(_, _)
SkipWs(b, i) == IF Peek(b, i) \in WhiteSpace THEN SkipWs(b, i + 1) ELSE i


\* parse_ident: the rest of a literal (ull, rue, alse) after its first byte;
\* val is what the literal stands for.
RECURSIVE ParseIdent(_, _, _, _)
ParseIdent(b, i, ident, val) ==
    IF ident = << >> THEN Ok(val, i)
    ELSE IF Peek(b, i) = -1 THEN Err("EOF while parsing a value", Len(b))
    ELSE IF Peek(b, i) # Ord(ident[1]) THEN Err("expected ident", i + 1)
    ELSE ParseIdent(b, i + 1, Tail(ident), val)

ULL == << "u", "l", "l" >>
RUE == << "r", "u", "e" >>
ALSE == << "a", "l", "s", "e" >>

\* parse_escape, after the backslash.
ParseEscape(b, i) ==
    LET c == Peek(b, i)
    IN  IF c = -1 THEN Err("EOF while parsing a string", Len(b))
        ELSE IF c \in { Ord("\""), Ord("\\"), Ord("/") } THEN Ok(Chr(c), i + 1)
        ELSE IF c = Ord("b") THEN Ok("<8>", i + 1)
        ELSE IF c = Ord("f") THEN Ok("<12>", i + 1)
        ELSE IF c = Ord("n") THEN Ok("<10>", i + 1)
        ELSE IF c = Ord("r") THEN Ok("<13>", i + 1)
        ELSE IF c = Ord("t") THEN Ok("<9>", i + 1)
        ELSE IF c = Ord("u") THEN
            IF i + 5 > Len(b) THEN Err("EOF while parsing a string", Len(b))
            ELSE IF \E k \in 2..5 : b[i + k] \notin HexDigits THEN Err("invalid escape", i + 5)
            ELSE Ok(Chr(((HexVal(b[i + 2]) * 16 + HexVal(b[i + 3])) * 16
                          + HexVal(b[i + 4])) * 16 + HexVal(b[i + 5])), i + 5)
        ELSE Err("invalid escape", i + 1)

\* parse_str, after the opening quote: the string's text and the index after
\* its closing quote.
RECURSIVE ParseStr(_, _, _)

\* The string goes on after the escape e.
AfterEscape(b, acc, e) == IF e.ok THEN ParseStr(b, e.i, acc \o e.val) ELSE e

ParseStr(b, i, acc) ==
    LET c == Peek(b, i)
    IN  IF c = -1 THEN Err("EOF while parsing a string", Len(b))
        ELSE IF c = Ord("\"") THEN Ok(acc, i + 1)
        ELSE IF c = Ord("\\") THEN AfterEscape(b, acc, ParseEscape(b, i + 1))
        ELSE IF c < 32 THEN
            Err("control character (\\u0000-\\u001F) found while parsing a string", i + 1)
        ELSE ParseStr(b, i + 1, acc \o Chr(c))

\* The index after the run of digits at i.
RECURSIVE ScanDigits(_, _)
ScanDigits(b, i) == IF Peek(b, i) \in Digits THEN ScanDigits(b, i + 1) ELSE i

\* d <= m for decimal numerals without leading zeros (sequences of digit bytes).
RECURSIVE NumeralLE(_, _)
NumeralLE(d, m) ==
    IF Len(d) # Len(m) THEN Len(d) < Len(m)
    ELSE IF d = << >> THEN TRUE
    ELSE IF d[1] # m[1] THEN d[1] < m[1]
    ELSE NumeralLE(Tail(d), Tail(m))

U64Max == Bytes(<< "1","8","4","4","6","7","4","4","0","7","3","7","0","9","5","5","1","6","1","5" >>)
I64MinMagnitude == Bytes(<< "9","2","2","3","3","7","2","0","3","6","8","5","4","7","7","5","8","0","8" >>)
U32Max == Bytes(<< "4","2","9","4","9","6","7","2","9","5" >>)
I32Max == Bytes(<< "2","1","4","7","4","8","3","6","4","7" >>)
I32MinMagnitude == Bytes(<< "2","1","4","7","4","8","3","6","4","8" >>)

\* A ParserNumber: [kind |-> "u64" | "i64" | "f64", digits |-> the integer's
\* numeral, text |-> the number as written], read from first to e, the
\* integer's digits being those from i to j.
ParserNumber(b, i, positive, j, e) ==
    Ok([kind |-> IF e > j \/ ~NumeralLE(SubSeq(b, i + 1, j), U64Max) THEN "f64"
                 ELSE IF positive THEN "u64"
                 ELSE IF SubSeq(b, i + 1, j) = << Ord("0") >>
                         \/ ~NumeralLE(SubSeq(b, i + 1, j), I64MinMagnitude) THEN "f64"
                 ELSE "i64",
        digits |-> SubSeq(b, i + 1, j),
        text |-> Str(Chars(SubSeq(b, IF positive THEN i + 1 ELSE i, e)))], e)

\* parse_exponent, after the e and its sign: the digits from e1 to e.
ExponentDigits(b, i, positive, j, e1, e) ==
    IF e > e1 THEN ParserNumber(b, i, positive, j, e)
    ELSE IF Peek(b, e) = -1 THEN Err("EOF while parsing a value", Len(b))
    ELSE Err("invalid number", e + 1)

\* The index after the sign an exponent may start with.
AfterSign(b, i) == IF Peek(b, i) \in { Ord("+"), Ord("-") } THEN i + 1 ELSE i

\* The number with its integer digits ending at j and its fraction at f.
Exponent(b, i, positive, j, f) ==
    IF Peek(b, f) \in { Ord("e"), Ord("E") }
    THEN ExponentDigits(b, i, positive, j, AfterSign(b, f + 1),
                        ScanDigits(b, AfterSign(b, f + 1)))
    ELSE ParserNumber(b, i, positive, j, f)

\* parse_decimal: at least one digit after the point.
Fraction(b, i, positive, j, f) ==
    IF f > j + 1 THEN Exponent(b, i, positive, j, f)
    ELSE IF Peek(b, f) = -1 THEN PeekErr(b, f, "EOF while parsing a value")
    ELSE PeekErr(b, f, "invalid number")

\* The number whose integer digits go from i to j.
IntegerDigits(b, i, positive, j) ==
    IF Peek(b, i) = Ord("0") /\ j > i + 1 THEN PeekErr(b, i + 1, "invalid number")
    ELSE IF Peek(b, j) = Ord(".") THEN Fraction(b, i, positive, j, ScanDigits(b, j + 1))
    ELSE Exponent(b, i, positive, j, j)

\* parse_integer and parse_number, at the first digit.
ParseInteger(b, i, positive) ==
    IF Peek(b, i) = -1 THEN Err("EOF while parsing a value", Len(b))
    ELSE IF Peek(b, i) \notin Digits THEN Err("invalid number", i + 1)
    ELSE IntegerDigits(b, i, positive, ScanDigits(b, i))

\* parse_any_number at a '-' or a digit.
ParseAnyNumber(b, i) ==
    ParseInteger(b, IF Peek(b, i) = Ord("-") THEN i + 1 ELSE i, Peek(b, i) # Ord("-"))

\* de::Unexpected as serde displays it for a ParserNumber.
UnexpectedNumber(n) ==
    IF n.kind = "f64" THEN "floating point " \o Backtick \o n.text \o Backtick
    ELSE "integer " \o Backtick \o n.text \o Backtick

\* de::Unexpected of the number r, when there is one.
NumberSeen(r) == IF r.ok THEN Ok(UnexpectedNumber(r.val), r.i) ELSE r

\* de::Unexpected of the string r, when there is one.
StringSeen(r) == IF r.ok THEN Ok("string \"" \o r.val \o "\"", r.i) ELSE r

\* The value at i, parsed if it is a scalar, as de::Unexpected displays it.
ParseUnexpected(b, i) ==
    LET c == Peek(b, i)
    IN  IF c = Ord("n") THEN ParseIdent(b, i + 1, ULL, "null")
        ELSE IF c = Ord("t") THEN ParseIdent(b, i + 1, RUE, "boolean " \o Quoted("true"))
        ELSE IF c = Ord("f") THEN ParseIdent(b, i + 1, ALSE, "boolean " \o Quoted("false"))
        ELSE IF c = Ord("-") \/ c \in Digits THEN NumberSeen(ParseAnyNumber(b, i))
        ELSE IF c = Ord("\"") THEN StringSeen(ParseStr(b, i + 1, ""))
        ELSE IF c = Ord("[") THEN Ok("sequence", i)
        ELSE IF c = Ord("{") THEN Ok("map", i)
        ELSE PeekErr(b, i, "expected value")

\* Error::invalid_type(unexpected, expected), at the position reached.
InvalidType(seen, exp) ==
    IF seen.ok THEN Err("invalid type: " \o seen.val \o ", expected " \o exp, seen.i) ELSE seen

\* peek_invalid_type: the "invalid type" error for a value that does not
\* start as the visitor expects; the value's scalar is parsed to name it.
PeekInvalidType(b, i, exp) == InvalidType(ParseUnexpected(b, i), exp)

\* ignore_value (serde::de::IgnoredAny): the index after one JSON value of
\* any shape.
RECURSIVE IgnoreValue(_, _), IgnoreSeq(_, _, _), IgnoreMap(_, _, _)

\* The rest of a list after the element r; of an object after the value r.
IgnoreSeqRest(b, r) == IF r.ok THEN IgnoreSeq(b, r.i, FALSE) ELSE r
IgnoreMapRest(b, r) == IF r.ok THEN IgnoreMap(b, r.i, FALSE) ELSE r

\* A member's colon and value, after its key k.
IgnoreMemberValue(b, k) ==
    IF ~k.ok THEN k
    ELSE IF Peek(b, SkipWs(b, k.i)) = -1
      THEN PeekErr(b, SkipWs(b, k.i), "EOF while parsing an object")
    ELSE IF Peek(b, SkipWs(b, k.i)) # Ord(":")
      THEN PeekErr(b, SkipWs(b, k.i), "expected " \o Quoted(":"))
    ELSE IgnoreMapRest(b, IgnoreValue(b, SkipWs(b, k.i) + 1))

\* A member of an ignored object, at its key.
IgnoreMember(b, i) ==
    IF Peek(b, i) = -1 THEN PeekErr(b, i, "EOF while parsing an object")
    ELSE IF Peek(b, i) # Ord("\"") THEN PeekErr(b, i, "key must be a string")
    ELSE IgnoreMemberValue(b, ParseStr(b, i + 1, ""))

\* first: right after the opening bracket, no value read yet.
IgnoreSeq(b, i0, first) ==
    LET i == SkipWs(b, i0)
        c == Peek(b, i)
    IN  IF c = -1 THEN PeekErr(b, i, "EOF while parsing a list")
        ELSE IF c = Ord("]") THEN Ok(TRUE, i + 1)
        ELSE IF ~first /\ c # Ord(",")
          THEN PeekErr(b, i, "expected " \o Quoted(",") \o " or " \o Quoted("]"))
        ELSE IgnoreSeqRest(b, IgnoreValue(b, IF first THEN i ELSE i + 1))

IgnoreMap(b, i0, first) ==
    LET i == SkipWs(b, i0)
        c == Peek(b, i)
    IN  IF c = -1 THEN PeekErr(b, i, "EOF while parsing an object")
        ELSE IF c = Ord("}") THEN Ok(TRUE, i + 1)
        ELSE IF ~first /\ c # Ord(",")
          THEN PeekErr(b, i, "expected " \o Quoted(",") \o " or " \o Quoted("}"))
        ELSE IgnoreMember(b, IF first THEN i ELSE SkipWs(b, i + 1))

IgnoreValue(b, i0) ==
    LET i == SkipWs(b, i0)
        c == Peek(b, i)
    IN  IF c = -1 THEN PeekErr(b, i, "EOF while parsing a value")
        ELSE IF c = Ord("[") THEN IgnoreSeq(b, i + 1, TRUE)
        ELSE IF c = Ord("{") THEN IgnoreMap(b, i + 1, TRUE)
        ELSE ParseUnexpected(b, i)

(***************************************************************************)
(* The types the handlers deserialize into, as serde's derive sees them:   *)
(* each field with its name in the JSON text and its type.                 *)
(***************************************************************************)

U32 == [kind |-> "u32", expecting |-> "u32"]
I32 == [kind |-> "i32", expecting |-> "i32"]
String == [kind |-> "string", expecting |-> "a string"]
Bool == [kind |-> "bool", expecting |-> "a boolean"]
Option(t) == [kind |-> "option", inner |-> t, expecting |-> "option"]
Array(t, n) == [kind |-> "array", inner |-> t, len |-> n,
                expecting |-> "an array of length " \o ToString(n)]
Field(field, name, t) == [field |-> field, name |-> name, ty |-> t]
Struct(name, fields, deny) ==
    [kind |-> "struct", name |-> name, fields |-> fields, deny_unknown_fields |-> deny,
     expecting |-> "struct " \o name]

None == [some |-> FALSE]
Some(v) == [some |-> TRUE, v |-> v]

\* struct Location { x: i32, y: i32, zone: String }
Location ==
    Struct("Location", << Field("x", "x", I32), Field("y", "y", I32),
                          Field("zone", "zone", String) >>, FALSE)

\* The number of item slots of Equipment.
ItemSlots == 5

\* struct Equipment { items: [u32; 5] }
Equipment == Struct("Equipment", << Field("items", "items", Array(U32, ItemSlots)) >>, FALSE)

\* VulnerablePlayerState with #[serde(deny_unknown_fields)], against which
\* the properties of the permissive binding are tried.
VulnerablePlayerStateClosed ==
    Struct("VulnerablePlayerState",
           << Field("equipment", "equipment", Equipment),
              Field("location", "location", Location),
              Field("is_admin", "isAdmin", Option(Bool)),
              Field("gold", "gold", Option(U32)) >>, TRUE)

\* #[serde(rename_all = "camelCase")]
\* struct VulnerablePlayerState { equipment, location, is_admin: Option<bool>,
\*                                gold: Option<u32> }
VulnerablePlayerState ==
    Struct("VulnerablePlayerState",
           << Field("equipment", "equipment", Equipment),
              Field("location", "location", Location),
              Field("is_admin", "isAdmin", Option(Bool)),
              Field("gold", "gold", Option(U32)) >>, FALSE)

\* SecurePlayerState without #[serde(deny_unknown_fields)], against which the
\* properties of the strict binding are tried.
SecurePlayerStateOpen ==
    Struct("SecurePlayerState",
           << Field("equipment", "equipment", Equipment),
              Field("location", "location", Location) >>, FALSE)

\* #[serde(deny_unknown_fields)] #[serde(rename_all = "camelCase")]
\* struct SecurePlayerState { equipment, location }
SecurePlayerState ==
    Struct("SecurePlayerState",
           << Field("equipment", "equipment", Equipment),
              Field("location", "location", Location) >>, TRUE)

(***************************************************************************)
(* The derived Deserialize implementations, run by serde_json.             *)
(***************************************************************************)

\* serde's list of the expected field names in an unknown-field error.
RECURSIVE CommaList(_)
CommaList(names) ==
    IF Len(names) = 1 THEN Quoted(names[1])
    ELSE Quoted(names[1]) \o ", " \o CommaList(Tail(names))

ExpectedFields(names) ==
    IF names = << >> THEN "there are no fields"
    ELSE IF Len(names) = 1 THEN "expected " \o Quoted(names[1])
    ELSE IF Len(names) = 2 THEN "expected " \o Quoted(names[1]) \o " or " \o Quoted(names[2])
    ELSE "expected one of " \o CommaList(names)

\* end_map, which deserialize_struct runs whatever the visitor returned:
\* the bytes consumed when an error of the visitor gets its position.
EndMapAt(b, i) == LET j == SkipWs(b, i) IN IF Peek(b, j) = Ord("}") THEN j + 1 ELSE j

\* end_seq, likewise.
EndSeqAt(b, i) ==
    LET j == SkipWs(b, i)
    IN  IF Peek(b, j) = Ord("]") THEN j + 1
        ELSE IF Peek(b, j) = Ord(",") THEN SkipWs(b, j + 1)
        ELSE j

\* end_seq after a visitor that succeeded.
EndSeq(b, i, v) ==
    LET j == SkipWs(b, i)
        c == Peek(b, j)
        k == SkipWs(b, j + 1)
    IN  IF c = Ord("]") THEN Ok(v, j + 1)
        ELSE IF c = -1 THEN PeekErr(b, j, "EOF while parsing a list")
        ELSE IF c = Ord(",") /\ Peek(b, k) = Ord("]") THEN PeekErr(b, k, "trailing comma")
        ELSE IF c = Ord(",") THEN PeekErr(b, k, "trailing characters")
        ELSE PeekErr(b, j, "trailing characters")

\* SeqAccess::next_element_seed up to the element: val is TRUE with the index
\* the element starts at, FALSE at the closing bracket.
NextElement(b, i, first) ==
    LET j == SkipWs(b, i)
        c == Peek(b, j)
        k == SkipWs(b, j + 1)
    IN  IF c = -1 THEN PeekErr(b, j, "EOF while parsing a list")
        ELSE IF c = Ord("]") THEN Ok(FALSE, j)
        ELSE IF first THEN Ok(TRUE, j)
        ELSE IF c # Ord(",") THEN PeekErr(b, j, "expected " \o Quoted(",") \o " or " \o Quoted("]"))
        ELSE IF Peek(b, k) = Ord("]") THEN PeekErr(b, k, "trailing comma")
        ELSE IF Peek(b, k) = -1 THEN PeekErr(b, k, "EOF while parsing a value")
        ELSE Ok(TRUE, k)

\* The key read by parse_str.
KeyRead(s) == IF s.ok THEN Ok([end |-> FALSE, key |-> s.val], s.i) ELSE s

\* MapAccess::next_key_seed: val is the key's text, or "" with end |-> TRUE at
\* the closing brace.
NextKey(b, i, first) ==
    LET j == SkipWs(b, i)
        c == Peek(b, j)
        k == IF first THEN j ELSE SkipWs(b, j + 1)
        d == Peek(b, k)
    IN  IF c = -1 THEN PeekErr(b, j, "EOF while parsing an object")
        ELSE IF c = Ord("}") THEN Ok([end |-> TRUE, key |-> ""], j)
        ELSE IF ~first /\ c # Ord(",") THEN PeekErr(b, j, "expected " \o Quoted(",") \o " or " \o Quoted("}"))
        ELSE IF d = -1 THEN PeekErr(b, k, "EOF while parsing a value")
        ELSE IF d = Ord("}") THEN PeekErr(b, k, "trailing comma")
        ELSE IF d # Ord("\"") THEN PeekErr(b, k, "key must be a string")
        ELSE KeyRead(ParseStr(b, k + 1, ""))

\* MapAccess::next_value_seed up to the value: the index after the colon.
ObjectColon(b, i) ==
    LET j == SkipWs(b, i)
    IN  IF Peek(b, j) = -1 THEN PeekErr(b, j, "EOF while parsing an object")
        ELSE IF Peek(b, j) # Ord(":") THEN PeekErr(b, j, "expected " \o Quoted(":"))
        ELSE Ok(TRUE, j + 1)

FieldNames(t) == [ k \in 1..Len(t.fields) |-> t.fields[k].name ]

\* The declared field of struct t with the JSON name given.
FieldNamed(t, name) == t.fields[CHOOSE k \in 1..Len(t.fields) : t.fields[k].name = name]

IsField(t, name) == \E k \in 1..Len(t.fields) : t.fields[k].name = name

\* The value of a struct once its map or sequence is read: the fields given,
\* None for an Option field that is absent; an absent field of another type is
\* the missing-field error.
Finish(b, i, t, acc) ==
    LET missing == { k \in 1..Len(t.fields) :
                        t.fields[k].name \notin DOMAIN acc /\ t.fields[k].ty.kind # "option" }
    IN  IF missing # {}
        THEN Err("missing field "
                    \o Quoted(t.fields[CHOOSE k \in missing : \A m \in missing : k <= m].name),
                 EndMapAt(b, i))
        ELSE Ok([ f \in { t.fields[k].field : k \in 1..Len(t.fields) } |->
                    LET k == CHOOSE k \in 1..Len(t.fields) : t.fields[k].field = f
                    IN  IF t.fields[k].name \in DOMAIN acc THEN acc[t.fields[k].name] ELSE None ],
                i + 1)

RECURSIVE De(_, _, _), VisitArray(_, _, _, _, _), VisitMap(_, _, _, _, _),
          VisitSeq(_, _, _, _, _)

\* Option<T>: Some of the value r.
SomeOf(r) == IF r.ok THEN Ok(Some(r.val), r.i) ELSE r

\* The largest magnitude of type t for a number of the sign given.
MaxOf(t, kind) ==
    IF t.kind = "u32" THEN U32Max ELSE IF kind = "u64" THEN I32Max ELSE I32MinMagnitude

\* The u32 or i32 visitor on the ParserNumber r: visit_u64, visit_i64 or
\* visit_f64.
VisitNumber(t, r) ==
    IF ~r.ok THEN r
    ELSE IF r.val.kind = "f64" THEN
        Err("invalid type: " \o UnexpectedNumber(r.val) \o ", expected " \o t.expecting, r.i)
    ELSE IF (t.kind = "u32" /\ r.val.kind = "i64")
            \/ ~NumeralLE(r.val.digits, MaxOf(t, r.val.kind)) THEN
        Err("invalid value: " \o UnexpectedNumber(r.val) \o ", expected " \o t.expecting, r.i)
    ELSE IF t.kind = "u32" THEN Ok(r.val.digits, r.i)
    ELSE Ok([neg |-> r.val.kind = "i64", digits |-> r.val.digits], r.i)

\* The first byte c is one a value of type t may start with.
StartsAs(t, c) ==
    CASE t.kind \in { "u32", "i32" } -> c = Ord("-") \/ c \in Digits
      [] t.kind = "string" -> c = Ord("\"")
      [] t.kind = "bool" -> c \in { Ord("t"), Ord("f") }
      [] t.kind = "array" -> c = Ord("[")
      [] t.kind = "struct" -> c \in { Ord("{"), Ord("[") }

\* <T as Deserialize>::deserialize, the white space before the value skipped.
DeAt(b, i, t) ==
    LET c == Peek(b, i)
    IN  IF t.kind = "option" THEN
            IF c = Ord("n") THEN ParseIdent(b, i + 1, ULL, None)
            ELSE SomeOf(De(b, i, t.inner))
        ELSE IF c = -1 THEN PeekErr(b, i, "EOF while parsing a value")
        ELSE IF ~StartsAs(t, c) THEN PeekInvalidType(b, i, t.expecting)
        ELSE IF t.kind \in { "u32", "i32" } THEN VisitNumber(t, ParseAnyNumber(b, i))
        ELSE IF t.kind = "string" THEN ParseStr(b, i + 1, "")
        ELSE IF t.kind = "bool" THEN
            ParseIdent(b, i + 1, IF c = Ord("t") THEN RUE ELSE ALSE, c = Ord("t"))
        ELSE IF t.kind = "array" THEN VisitArray(b, i + 1, t, TRUE, << >>)
        ELSE IF c = Ord("{") THEN VisitMap(b, i + 1, t, TRUE, << >>)
        ELSE VisitSeq(b, i + 1, t, TRUE, << >>)

\* <T as Deserialize>::deserialize on the deserializer at index i0.
De(b, i0, t) == DeAt(b, SkipWs(b, i0), t)

\* The array goes on after its element r.
ArrayValue(b, t, acc, r) ==
    IF r.ok THEN VisitArray(b, r.i, t, FALSE, Append(acc, r.val)) ELSE r

\* The element of an array, e telling whether there is one.
ArrayElement(b, t, acc, e) ==
    IF ~e.ok THEN e
    ELSE IF ~e.val THEN
        Err("invalid length " \o ToString(Len(acc)) \o ", expected " \o t.expecting,
            EndSeqAt(b, e.i))
    ELSE ArrayValue(b, t, acc, De(b, e.i, t.inner))

\* The visitor of [T; N]: exactly N elements, then end_seq.
VisitArray(b, i, t, first, acc) ==
    IF Len(acc) = t.len THEN EndSeq(b, i, acc)
    ELSE ArrayElement(b, t, acc, NextElement(b, i, first))

\* The map goes on after the value r of the member called name.
MapValue(b, t, acc, name, r) ==
    IF ~r.ok THEN r
    ELSE VisitMap(b, r.i, t, FALSE, IF IsField(t, name) THEN acc @@ (name :> r.val) ELSE acc)

\* The value of the member called name: deserialized into its field, or
\* ignored when the struct has no such field.
MapMember(b, t, acc, name, colon) ==
    IF ~colon.ok THEN colon
    ELSE MapValue(b, t, acc, name,
                  IF IsField(t, name) THEN De(b, colon.i, FieldNamed(t, name).ty)
                  ELSE IgnoreValue(b, colon.i))

\* The member whose key was read.
MapKey(b, t, acc, key) ==
    IF ~key.ok THEN key
    ELSE IF key.val.end THEN Finish(b, key.i, t, acc)
    ELSE IF key.val.key \in DOMAIN acc THEN
        Err("duplicate field " \o Quoted(key.val.key), EndMapAt(b, key.i))
    ELSE IF ~IsField(t, key.val.key) /\ t.deny_unknown_fields THEN
        Err("unknown field " \o Quoted(key.val.key) \o ", " \o ExpectedFields(FieldNames(t)),
            EndMapAt(b, key.i))
    ELSE MapMember(b, t, acc, key.val.key, ObjectColon(b, key.i))

\* The derived visit_map of a struct: the fields in the order the text gives
\* them, acc the fields read so far (by JSON name).
VisitMap(b, i, t, first, acc) == MapKey(b, t, acc, NextKey(b, i, first))

\* The sequence goes on after the value r of field n.
SeqValue(b, t, acc, n, r) ==
    IF r.ok THEN VisitSeq(b, r.i, t, FALSE, acc @@ (t.fields[n].name :> r.val)) ELSE r

\* Field n of a struct given as a sequence, e telling whether there is one.
SeqElement(b, t, acc, n, e) ==
    IF ~e.ok THEN e
    ELSE IF ~e.val THEN
        Err("invalid length " \o ToString(n - 1) \o ", expected " \o t.expecting
                \o " with " \o ToString(Len(t.fields)) \o " elements",
            EndSeqAt(b, e.i))
    ELSE SeqValue(b, t, acc, n, De(b, e.i, t.fields[n].ty))

\* The derived visit_seq of a struct: its fields in declaration order.
VisitSeq(b, i, t, first, acc) ==
    IF Cardinality(DOMAIN acc) = Len(t.fields) THEN EndSeq(b, i, Finish(b, i, t, acc).val)
    ELSE SeqElement(b, t, acc, Cardinality(DOMAIN acc) + 1, NextElement(b, i, first))

\* Position of the first at bytes: the line, and the column within it.
Line(b, at) == 1 + Cardinality({ k \in 1..at : b[k] = 10 })
Column(b, at) ==
    LET nl == { k \in 1..at : b[k] = 10 }
    IN  IF nl = {} THEN at ELSE at - (CHOOSE k \in nl : \A m \in nl : m <= k)

\* The error e as Display prints it.
Failure(b, e) ==
    [ok |-> FALSE,
     err |-> e.code \o " at line " \o ToString(Line(b, e.at))
                    \o " column " \o ToString(Column(b, e.at))]

\* Deserializer::end after the value r: nothing but white space follows.
End(b, r) ==
    IF ~r.ok THEN Failure(b, r)
    ELSE IF Peek(b, SkipWs(b, r.i)) # -1
      THEN Failure(b, PeekErr(b, SkipWs(b, r.i), "trailing characters"))
    ELSE [ok |-> TRUE, val |-> r.val]

\* serde_json::from_slice::<T>: the value, and nothing but white space after
\* it; on failure the error as Display prints it.
FromSlice(b, t) == End(b, De(b, 0, t))


(***************************************************************************)
(* The client side: JSON documents and their text (serde_json::to_vec,     *)
(* compact, members in the order given), from which the requests are made. *)
(* A value is [t |-> type, s |-> the scalar's text, c |-> the children]:   *)
(* the elements of an array, the members [key, value] of an object.        *)
(***************************************************************************)


JNull == [t |-> "null", s |-> << "n", "u", "l", "l" >>, c |-> << >>]
JBool(v) == [t |-> "bool", s |-> IF v THEN << "t", "r", "u", "e" >> ELSE << "f", "a", "l", "s", "e" >>, c |-> << >>]
JNum(text) == [t |-> "num", s |-> text, c |-> << >>]
JStr(chars) == [t |-> "str", s |-> chars, c |-> << >>]
JArr(elems) == [t |-> "arr", s |-> << >>, c |-> elems]
JObj(members) == [t |-> "obj", s |-> << >>, c |-> members]
Member(k, v) == [key |-> k, value |-> v]

\* The character of the digit d.
DigitChar(d) == Printable[Ord("0") - 31 + d]

\* The decimal numeral of a natural number, as characters.
RECURSIVE Decimal(_)
Decimal(n) ==
    IF n < 10 THEN << DigitChar(n) >>
    ELSE Decimal(n \div 10) \o << DigitChar(n % 10) >>

JInt(n) == JNum(Decimal(n))

RECURSIVE ToJson(_), JoinElems(_), JoinMembers(_)
ToJson(v) ==
    IF v.t = "str" THEN << "\"" >> \o v.s \o << "\"" >>
    ELSE IF v.t = "arr" THEN << "[" >> \o JoinElems(v.c) \o << "]" >>
    ELSE IF v.t = "obj" THEN << "{" >> \o JoinMembers(v.c) \o << "}" >>
    ELSE v.s

JoinElems(es) ==
    IF es = << >> THEN << >>
    ELSE ToJson(es[1]) \o (IF Len(es) = 1 THEN << >> ELSE << "," >> \o JoinElems(Tail(es)))

JoinMembers(ms) ==
    IF ms = << >> THEN << >>
    ELSE << "\"" >> \o ms[1].key \o << "\"", ":" >> \o ToJson(ms[1].value)
            \o (IF Len(ms) = 1 THEN << >> ELSE << "," >> \o JoinMembers(Tail(ms)))


(***************************************************************************)
(* The handlers' computations.                                             *)
(* A response is [status, body]; the body is the sequence of the pieces    *)
(* that format! and push_str put together: the literal text and the        *)
(* formatted arguments, in order.                                          *)
(***************************************************************************)

HttpResponse(status, body) == [status |-> status, body |-> body]

\* Index of player_state.equipment.items[2], sequences being 1-based here.
SwordSlot == 3

\* if player_state.equipment.items[2] > 20
MaxSwordLevel == 20

\* Display of a u32 held as its numeral.
Display(v) == Str(Chars(v))

\* v > n for a u32 held as its numeral.
U32Gt(v, n) == ~NumeralLE(v, Bytes(Decimal(n)))

InvalidBase64 == HttpResponse(400, << "Invalid Base64 data" >>)

AdminAlert == "\nALERT: Attacker successfully escalated privileges to ADMIN!"

GoldAlert == "\nALERT: Attacker granted themselves "

\* A message that announces the gold only when some was granted, against
\* which the properties of the alerts are tried.
VulnerableMessageNonZeroGold(uid, state) ==
    << "Player state for user ", ToString(uid), " updated. Sword level is now: ",
       Display(state.equipment.items[3]), "." >>
    \o (IF state.is_admin.some /\ state.is_admin.v THEN << AdminAlert >> ELSE << >>)
    \o (IF state.gold.some /\ state.gold.v # << 48 >>
        THEN << GoldAlert, Display(state.gold.v), " gold!" >> ELSE << >>)

\* Step 3 of vulnerable_state_update: the message, with the alerts the
\* injected fields trigger.
VulnerableMessage(uid, state) ==
    << "Player state for user ", ToString(uid), " updated. Sword level is now: ",
       Display(state.equipment.items[SwordSlot]), "." >>
    \o (IF state.is_admin.some /\ state.is_admin.v THEN << AdminAlert >> ELSE << >>)
    \o (IF state.gold.some THEN << GoldAlert, Display(state.gold.v), " gold!" >> ELSE << >>)

\* Step 2 of vulnerable_state_update, on failure.
VulnerableRejected(err) == HttpResponse(400, << "JSON Deserialization Error: ", err >>)

\* A rejection sent as 422, against which the properties of the strict
\* binding's response are tried.
SecureRejectedUnprocessable(err) ==
    HttpResponse(422, << "MITIGATED: Payload rejected due to unexpected fields. Error: ", err >>)

\* Step 2 of secure_state_update, on failure.
SecureRejected(err) ==
    HttpResponse(400, << "MITIGATED: Payload rejected due to unexpected fields. Error: ", err >>)

\* The rule with >= written for >, shifted by one, against which the
\* boundary of the sword level is tried.
SwordLevelInvalidOffByOne(state) == U32Gt(state.equipment.items[3], 21)

\* Step 3 of secure_state_update.
SwordLevelInvalid(state) == U32Gt(state.equipment.items[SwordSlot], MaxSwordLevel)

InvalidItemLevel ==
    HttpResponse(422, << "MITIGATED: Invalid item level detected. Sword level cannot exceed 20." >>)

\* A message that gives items[1] for items[2], against which the echo of the
\* sword level is tried.
SecureMessageWrongSlot(uid, state) ==
    << "Player state for user ", ToString(uid), " securely updated. Sword level is now: ",
       Display(state.equipment.items[2]), "." >>

\* The message of secure_state_update.
SecureMessage(uid, state) ==
    << "Player state for user ", ToString(uid), " securely updated. Sword level is now: ",
       Display(state.equipment.items[SwordSlot]), "." >>

\* vulnerable_state_update from step 2 on, the result of from_slice given.
VulnerableBound(uid, bound) ==
    IF ~bound.ok THEN VulnerableRejected(bound.err)
    ELSE HttpResponse(200, VulnerableMessage(uid, bound.val))

\* vulnerable_state_update from step 1 on, the result of decode given.
VulnerableDecoded(uid, decoded) ==
    IF ~decoded.ok THEN InvalidBase64
    ELSE VulnerableBound(uid, FromSlice(decoded.bytes, VulnerablePlayerState))

\* vulnerable_state_update as a function of its arguments.
vulnerable_state_update(uid, text) == VulnerableDecoded(uid, B64Decode(text))

\* secure_state_update from step 2 on, the result of from_slice given.
SecureBound(uid, bound) ==
    IF ~bound.ok THEN SecureRejected(bound.err)
    ELSE IF SwordLevelInvalid(bound.val) THEN InvalidItemLevel
    ELSE HttpResponse(200, SecureMessage(uid, bound.val))

\* secure_state_update from step 1 on, the result of decode given.
SecureDecoded(uid, decoded) ==
    IF ~decoded.ok THEN InvalidBase64
    ELSE SecureBound(uid, FromSlice(decoded.bytes, SecurePlayerState))

\* secure_state_update as a function of its arguments.
secure_state_update(uid, text) == SecureDecoded(uid, B64Decode(text))

(***************************************************************************)
(* The requests the clients send.  A request is described by a record of   *)
(* choices, from which the document, its JSON text and the playerState     *)
(* text are built:                                                         *)
(*   top     "obj" | "arr" | "null": the document's outermost shape        *)
(*   layout  the top-level members in order: "E" equipment, "L" location,  *)
(*           "X" and "Y" two further members (xname: xval, yname: yval)    *)
(*   sword, others   items[2] and the other four items                     *)
(*   equip, loc      how the equipment and location values are formed      *)
(*   nname, nval     the further member placed inside equipment/location   *)
(*   json    how the text departs from the document's JSON                 *)
(*   wire    how the playerState departs from the text's base64            *)
(***************************************************************************)

SecretText == << "s", "3", "c", "r", "3", "t" >>
HugeText == << "4", "2", "9", "4", "9", "6", "7", "2", "9", "6" >>
U32MaxText == << "4", "2", "9", "4", "9", "6", "7", "2", "9", "5" >>

\* The characters of a member's name.
Key(name) ==
    CASE name = "equipment" -> << "e", "q", "u", "i", "p", "m", "e", "n", "t" >>
      [] name = "items" -> << "i", "t", "e", "m", "s" >>
      [] name = "location" -> << "l", "o", "c", "a", "t", "i", "o", "n" >>
      [] name = "x" -> << "x" >>
      [] name = "y" -> << "y" >>
      [] name = "zone" -> << "z", "o", "n", "e" >>
      [] name = "isAdmin" -> << "i", "s", "A", "d", "m", "i", "n" >>
      [] name = "gold" -> << "g", "o", "l", "d" >>
      [] name = "foo" -> << "f", "o", "o" >>

\* The values an injected member may hold.
Value(tag) ==
    CASE tag = "true" -> JBool(TRUE)
      [] tag = "false" -> JBool(FALSE)
      [] tag = "null" -> JNull
      [] tag = "0" -> JInt(0)
      [] tag = "100" -> JInt(100)
      [] tag = "-1" -> JNum(<< "-", "1" >>)
      [] tag = "huge" -> JNum(HugeText)
      [] tag = "max" -> JNum(U32MaxText)
      [] tag = "str" -> JStr(SecretText)
      [] tag = "longstr" -> JStr(SecretText \o SecretText)
      [] tag = "arr" -> JArr(<< JInt(1) >>)
      [] tag = "obj" -> JObj(<< Member(Key("foo"), JNull) >>)

ValueTags == { "true", "false", "null", "0", "100", "max", "-1", "huge", "str", "longstr", "arr", "obj" }

\* The other four items, as (items[0], items[1], items[3], items[4]).
OtherItems ==
    << << JInt(1), JInt(2), JInt(4), JInt(5) >>,
       << JInt(0), JInt(0), JInt(0), JInt(0) >>,
       << JInt(21), JInt(300), JNum(U32MaxText), JInt(25) >> >>

\* items[2] as the request writes it.
SwordOf(d) ==
    CASE d.equip = "neg" -> JNum(<< "-", "1" >>)
      [] d.equip = "str" -> JStr(Decimal(d.sword))
      [] d.equip = "float" -> JNum(Decimal(d.sword) \o << ".", "5" >>)
      [] d.equip = "big" -> JNum(HugeText)
      [] d.equip = "max" -> JNum(U32MaxText)
      [] OTHER -> JInt(d.sword)

\* The items with the sword in its slot: five of them, or one less or more.
ItemsWith(shape, o, sword) ==
    CASE shape = "short" -> << o[1], o[2], sword, o[3] >>
      [] shape = "long" -> << o[1], o[2], sword, o[3], o[4], JInt(6) >>
      [] OTHER -> << o[1], o[2], sword, o[3], o[4] >>

ItemsOf(d) == ItemsWith(d.equip, OtherItems[d.others], SwordOf(d))

EquipmentWith(shape, items, extra) ==
    CASE shape = "notobj" -> JInt(7)
      [] shape = "noitems" -> JObj(<< >>)
      [] shape = "nested" -> JObj(<< items, extra >>)
      [] shape = "nestedFirst" -> JObj(<< extra, items >>)
      [] OTHER -> JObj(<< items >>)

\* The further member placed inside equipment or location.
NestedMember(d) == Member(Key(d.nname), Value(d.nval))

EquipmentOf(d) == EquipmentWith(d.equip, Member(Key("items"), JArr(ItemsOf(d))), NestedMember(d))

LocationWith(shape, x, y, zone, extra) ==
    CASE shape = "nozone" -> JObj(<< x, y >>)
      [] shape = "nested" -> JObj(<< x, y, zone, extra >>)
      [] shape = "reordered" -> JObj(<< zone, y, x >>)
      [] OTHER -> JObj(<< x, y, zone >>)

LocationOf(d) ==
    LocationWith(d.loc,
                 Member(<< "x" >>, IF d.loc = "badx" THEN JStr(<< "1" >>)
                                   ELSE IF d.loc = "ok2" THEN JNum(<< "-", "3" >>) ELSE JInt(0)),
                 Member(<< "y" >>, IF d.loc = "ok2" THEN JInt(7) ELSE JInt(0)),
                 Member(Key("zone"), JStr(IF d.loc = "ok2" THEN << "b" >> ELSE << "a" >>)),
                 NestedMember(d))

TopMember(d, tag) ==
    CASE tag = "E" -> Member(Key("equipment"), EquipmentOf(d))
      [] tag = "L" -> Member(Key("location"), LocationOf(d))
      [] tag = "X" -> Member(Key(d.xname), Value(d.xval))
      [] tag = "Y" -> Member(Key(d.yname), Value(d.yval))

\* The document with the members given: an object, the array of their values,
\* or null.
DocumentWith(top, members) ==
    CASE top = "null" -> JNull
      [] top = "arr" -> JArr([ k \in 1..Len(members) |-> members[k].value ])
      [] OTHER -> JObj(members)

\* The document of a request.
DocumentOf(d) == DocumentWith(d.top, [ k \in 1..Len(d.layout) |-> TopMember(d, d.layout[k]) ])

TextWith(json, text) ==
    CASE json = "truncated" -> SubSeq(text, 1, Len(text) - 1)
      [] json = "trailing" -> text \o << " ", "x" >>
      [] json = "padded" -> << " " >> \o text \o << " ", " " >>
      [] OTHER -> text

\* The JSON text of a request.
TextOf(d) == TextWith(d.json, ToJson(DocumentOf(d)))

\* The base64 text good as the request sends it.
OnWire(wire, good) ==
    CASE wire = "literal" -> << "n", "o", "t", "-", "b", "a", "s", "e", "6", "4", "!", "!" >>
      [] wire = "nopad" -> DropLast(good, TrailingPad(good))
      [] wire = "badchar" -> << "!" >> \o Tail(good)
      [] wire = "badlen" -> Append(good, "A")
      [] wire = "badbits" ->
            IF TrailingPad(good) = 0 THEN good
            ELSE [ good EXCEPT ![Len(good) - TrailingPad(good)] =
                        B64Alphabet[B64Val(good[Len(good) - TrailingPad(good)]) + 2] ]
      [] OTHER -> good

\* The playerState text of a request.
PlayerStateOf(d) == OnWire(d.wire, B64Encode(Bytes(TextOf(d))))

\* The playerState is not padded standard base64: it was made from one by a
\* change that leaves the alphabet, the length or the padding rule.
NotBase64(d) ==
    \/ d.wire \in { "literal", "badchar", "badlen" }
    \/ d.wire \in { "nopad", "badbits" } /\ TrailingPad(B64Encode(Bytes(TextOf(d)))) > 0

\* The playerState is the base64 of a document's JSON text.
CarriesDocument(d) == d.wire = "ok" /\ d.json \in { "ok", "padded" }


\* Largest items[2] among the well-formed requests.
MaxSword == 25

\* Largest user id in a request path.
MaxUserId == 2

\* Number of workers handling requests at the same time.
NumWorkers == 2

PlainRequest ==
    [top |-> "obj", layout |-> << "E", "L" >>, sword |-> 3, others |-> 1,
     equip |-> "ok", loc |-> "ok1", xname |-> "isAdmin", xval |-> "true",
     yname |-> "gold", yval |-> "100", nname |-> "foo", nval |-> "str",
     json |-> "ok", wire |-> "ok"]

\* Documents of the declared shape alone, with every sword level.
DeclaredRequests ==
    { [PlainRequest EXCEPT !.layout = lo, !.sword = s, !.others = o, !.loc = l] :
        lo \in { << "E", "L" >>, << "L", "E" >> }, s \in 0..MaxSword, o \in 1..3,
        l \in { "ok1", "ok2" } }
    \cup { [PlainRequest EXCEPT !.equip = "max", !.others = o] : o \in 1..3 }
    \cup { [PlainRequest EXCEPT !.loc = "reordered", !.sword = s] : s \in { 20, 21 } }

\* The declared members and one or two more at the top level.
InjectedRequests ==
    { [PlainRequest EXCEPT !.layout = lo, !.sword = s, !.xname = n, !.xval = v] :
        lo \in { << "E", "L", "X" >>, << "X", "E", "L" >>, << "E", "X", "L" >> },
        s \in { 20, 21 }, n \in { "isAdmin", "gold", "foo" }, v \in ValueTags }
    \cup { [PlainRequest EXCEPT !.layout = << "E", "L", "X", "Y" >>, !.sword = s,
                                !.xval = v, !.yval = w] :
             s \in { 7, 25 }, v \in { "true", "false", "null" }, w \in { "0", "100", "max", "null" } }

\* A further member inside equipment or location.
NestedRequests ==
    { [PlainRequest EXCEPT !.layout = lo, !.sword = s, !.equip = e[1], !.loc = e[2],
                           !.nname = n, !.nval = v] :
        lo \in { << "E", "L" >>, << "E", "L", "X" >>, << "L", "E" >> }, s \in { 20, 21 },
        e \in { << "nested", "ok1" >>, << "nestedFirst", "ok1" >>, << "ok", "nested" >>,
                << "nested", "nozone" >> },
        n \in { "isAdmin", "foo" }, v \in { "true", "str", "longstr" } }

\* Declared members that are absent or of the wrong shape, with and without a
\* further member at the top level.
MismatchedRequests ==
    { [PlainRequest EXCEPT !.layout = lo, !.equip = e, !.xname = n] :
        lo \in { << "E", "L" >>, << "E", "L", "X" >>, << "X", "E", "L" >> },
        e \in { "short", "long", "neg", "str", "float", "big", "notobj", "noitems" },
        n \in { "isAdmin", "foo" } }
    \cup { [PlainRequest EXCEPT !.layout = lo, !.loc = l] :
             lo \in { << "E", "L" >>, << "E", "L", "X" >>, << "X", "E", "L" >> },
             l \in { "nozone", "badx" } }
    \cup { [PlainRequest EXCEPT !.layout = lo] :
             lo \in { << >>, << "E" >>, << "L" >>, << "E", "X" >>, << "X" >>,
                      << "E", "L", "E" >>, << "E", "L", "X", "X" >> } }

\* Texts that are not one JSON object, and playerState texts that are not
\* base64.
MalformedRequests ==
    { [PlainRequest EXCEPT !.layout = lo, !.json = j] :
        lo \in { << "E", "L" >>, << "E", "L", "X" >>, << "X", "E", "L" >> },
        j \in { "truncated", "trailing", "padded" } }
    \cup { [PlainRequest EXCEPT !.top = t, !.sword = s] : t \in { "arr", "null" }, s \in { 20, 21 } }
    \cup { [PlainRequest EXCEPT !.layout = lo, !.sword = s, !.wire = w] :
             lo \in { << "E", "L" >>, << "E", "L", "X" >>, << "X" >> }, s \in { 3, 21, 25 },
             w \in { "literal", "nopad", "badchar", "badlen", "badbits" } }

Requests ==
    DeclaredRequests \cup InjectedRequests \cup NestedRequests \cup MismatchedRequests
        \cup MalformedRequests

\* The requests of the runs in which several workers are busy at once.
ConcurrentRequests ==
    { [PlainRequest EXCEPT !.layout = lo, !.sword = s] :
        lo \in { << "E", "L" >>, << "E", "L", "X" >> }, s \in { 20, 21 } }
    \cup { [PlainRequest EXCEPT !.wire = "badchar"] }

Workers == 1..NumWorkers

Endpoints == { "vulnerable", "secure" }

(***************************************************************************)
(* The server.  Each worker runs one handler call at a time; its locals    *)
(* are its own.                                                            *)
(*   pc            where the worker's call stands                          *)
(*   endpoint      the route of the call                                   *)
(*   user_id       web::Path<u32>                                          *)
(*   req_body      GameStateRequest.player_state                           *)
(*   sent          the description the request was built from (not seen    *)
(*                 by the handler)                                         *)
(*   decoded_bytes, player_state   the handler's locals                    *)
(*   response      the HttpResponse returned                               *)
(***************************************************************************)
VARIABLES pc, endpoint, user_id, req_body, sent, decoded_bytes, player_state, response

vars == << pc, endpoint, user_id, req_body, sent, decoded_bytes, player_state, response >>

NoResponse == HttpResponse(0, << >>)

NoState == [bound |-> FALSE]

Init ==
    /\ pc = [ w \in Workers |-> "idle" ]
    /\ endpoint = [ w \in Workers |-> "none" ]
    /\ user_id = [ w \in Workers |-> 0 ]
    /\ req_body = [ w \in Workers |-> << >> ]
    /\ sent = [ w \in Workers |-> PlainRequest ]
    /\ decoded_bytes = [ w \in Workers |-> << >> ]
    /\ player_state = [ w \in Workers |-> NoState ]
    /\ response = [ w \in Workers |-> NoResponse ]

\* The router hands a POST to a handler on worker w.
Post(w, ep, uid, d) ==
    /\ pc[w] = "idle"
    /\ pc' = [pc EXCEPT ![w] = "decode"]
    /\ endpoint' = [endpoint EXCEPT ![w] = ep]
    /\ user_id' = [user_id EXCEPT ![w] = uid]
    /\ req_body' = [req_body EXCEPT ![w] = PlayerStateOf(d)]
    /\ sent' = [sent EXCEPT ![w] = d]
    /\ UNCHANGED << decoded_bytes, player_state, response >>

\* Step 1 with the result of decode.
Decoded(w, decoded) ==
    IF decoded.ok
    THEN /\ decoded_bytes' = [decoded_bytes EXCEPT ![w] = decoded.bytes]
         /\ pc' = [pc EXCEPT ![w] = "deserialize"]
         /\ UNCHANGED response
    ELSE /\ response' = [response EXCEPT ![w] = InvalidBase64]
         /\ pc' = [pc EXCEPT ![w] = "done"]
         /\ UNCHANGED decoded_bytes

\* Either handler, step 1: decode the base64 text.
Decode(w) ==
    /\ pc[w] = "decode"
    /\ Decoded(w, B64Decode(req_body[w]))
    /\ UNCHANGED << endpoint, user_id, req_body, sent, player_state >>

\* vulnerable_state_update, step 2 with the result of from_slice.
VulnerableDeserialized(w, bound) ==
    IF bound.ok
    THEN /\ player_state' = [player_state EXCEPT ![w] = bound.val]
         /\ pc' = [pc EXCEPT ![w] = "respond"]
         /\ UNCHANGED response
    ELSE /\ response' = [response EXCEPT ![w] = VulnerableRejected(bound.err)]
         /\ pc' = [pc EXCEPT ![w] = "done"]
         /\ UNCHANGED player_state

\* vulnerable_state_update, step 2: deserialize into VulnerablePlayerState.
VulnerableDeserialize(w) ==
    /\ pc[w] = "deserialize" /\ endpoint[w] = "vulnerable"
    /\ VulnerableDeserialized(w, FromSlice(decoded_bytes[w], VulnerablePlayerState))
    /\ UNCHANGED << endpoint, user_id, req_body, sent, decoded_bytes >>

\* A handler that keeps the user id in one place for all the workers (the
\* id of the call that came last), against which the independence of the
\* calls is tried.
VulnerableRespondShared(w) ==
    /\ pc[w] = "respond" /\ endpoint[w] = "vulnerable"
    /\ response' = [response EXCEPT
                      ![w] = HttpResponse(200, VulnerableMessage(user_id[(w % NumWorkers) + 1],
                                                                 player_state[w]))]
    /\ pc' = [pc EXCEPT ![w] = "done"]
    /\ UNCHANGED << endpoint, user_id, req_body, sent, decoded_bytes, player_state >>

\* vulnerable_state_update, step 3: act on the fields and answer.
VulnerableRespond(w) ==
    /\ pc[w] = "respond" /\ endpoint[w] = "vulnerable"
    /\ response' = [response EXCEPT
                      ![w] = HttpResponse(200, VulnerableMessage(user_id[w], player_state[w]))]
    /\ pc' = [pc EXCEPT ![w] = "done"]
    /\ UNCHANGED << endpoint, user_id, req_body, sent, decoded_bytes, player_state >>

\* secure_state_update, step 2 with the result of from_slice.
SecureDeserialized(w, bound) ==
    IF bound.ok
    THEN /\ player_state' = [player_state EXCEPT ![w] = bound.val]
         /\ pc' = [pc EXCEPT ![w] = "validate"]
         /\ UNCHANGED response
    ELSE /\ response' = [response EXCEPT ![w] = SecureRejected(bound.err)]
         /\ pc' = [pc EXCEPT ![w] = "done"]
         /\ UNCHANGED player_state

\* secure_state_update, step 2: deserialize into SecurePlayerState.
SecureDeserialize(w) ==
    /\ pc[w] = "deserialize" /\ endpoint[w] = "secure"
    /\ SecureDeserialized(w, FromSlice(decoded_bytes[w], SecurePlayerState))
    /\ UNCHANGED << endpoint, user_id, req_body, sent, decoded_bytes >>

\* secure_state_update, step 3: the sword-level rule.
SecureValidate(w) ==
    /\ pc[w] = "validate" /\ endpoint[w] = "secure"
    /\ IF SwordLevelInvalid(player_state[w])
       THEN /\ response' = [response EXCEPT ![w] = InvalidItemLevel]
            /\ pc' = [pc EXCEPT ![w] = "done"]
       ELSE /\ pc' = [pc EXCEPT ![w] = "respond"]
            /\ UNCHANGED response
    /\ UNCHANGED << endpoint, user_id, req_body, sent, decoded_bytes, player_state >>

\* secure_state_update, the answer after validation.
SecureRespond(w) ==
    /\ pc[w] = "respond" /\ endpoint[w] = "secure"
    /\ response' = [response EXCEPT
                      ![w] = HttpResponse(200, SecureMessage(user_id[w], player_state[w]))]
    /\ pc' = [pc EXCEPT ![w] = "done"]
    /\ UNCHANGED << endpoint, user_id, req_body, sent, decoded_bytes, player_state >>

\* The response goes out; the call's locals are dropped.
Return(w) ==
    /\ pc[w] = "done"
    /\ pc' = [pc EXCEPT ![w] = "idle"]
    /\ endpoint' = [endpoint EXCEPT ![w] = "none"]
    /\ user_id' = [user_id EXCEPT ![w] = 0]
    /\ req_body' = [req_body EXCEPT ![w] = << >>]
    /\ sent' = [sent EXCEPT ![w] = PlainRequest]
    /\ decoded_bytes' = [decoded_bytes EXCEPT ![w] = << >>]
    /\ player_state' = [player_state EXCEPT ![w] = NoState]
    /\ response' = [response EXCEPT ![w] = NoResponse]

Step(w) ==
    \/ Decode(w)
    \/ VulnerableDeserialize(w)
    \/ VulnerableRespond(w)
    \/ SecureDeserialize(w)
    \/ SecureValidate(w)
    \/ SecureRespond(w)
    \/ Return(w)

\* One request at a time, over all the requests.
Next ==
    \/ \E ep \in Endpoints, uid \in 1..MaxUserId, d \in Requests : Post(1, ep, uid, d)
    \/ Step(1)

Spec == Init /\ [][Next]_vars

\* Several requests at a time, each worker serving the user of its number.
NextConcurrent ==
    \E w \in Workers :
        \/ \E ep \in Endpoints, d \in ConcurrentRequests : Post(w, ep, w, d)
        \/ Step(w)

SpecConcurrent == Init /\ [][NextConcurrent]_vars

(***************************************************************************)
(* What the requests are, in the terms the properties use.                 *)
(***************************************************************************)

\* The call of worker w has its response.
Done(w) == pc[w] = "done"

\* How many top-level members of the kind tag the document has.
Count(d, tag) == Cardinality({ k \in 1..Len(d.layout) : d.layout[k] = tag })

\* The name and the value of the top-level member k.
NameAt(d, k) ==
    CASE d.layout[k] = "E" -> "equipment"
      [] d.layout[k] = "L" -> "location"
      [] d.layout[k] = "X" -> d.xname
      [] d.layout[k] = "Y" -> d.yname

ValueAt(d, k) == IF d.layout[k] = "X" THEN d.xval ELSE d.yval

\* The top-level members other than equipment and location.
Extras(d) == { k \in 1..Len(d.layout) : d.layout[k] \in { "X", "Y" } }

\* The document is an object holding equipment and location, once each.
HasDeclared(d) == d.top = "obj" /\ Count(d, "E") = 1 /\ Count(d, "L") = 1

\* Its top-level field set is a strict superset of {equipment, location}.
StrictSuperset(d) == HasDeclared(d) /\ Extras(d) # {}

\* equipment and location hold values of the declared schema, and nothing else.
DeclaredValues(d) == d.equip \in { "ok", "max" } /\ d.loc \in { "ok1", "ok2", "reordered" }

\* A member outside the schema sits inside equipment or inside location.
NestedExtra(d) ==
    \/ d.equip \in { "nested", "nestedFirst" } /\ Count(d, "E") > 0
    \/ d.loc = "nested" /\ Count(d, "L") > 0

\* The document holds exactly the declared schema.
ExactlyDeclared(d) == HasDeclared(d) /\ Extras(d) = {} /\ DeclaredValues(d)

\* The top-level member called name is present.
Present(d, name) == d.top = "obj" /\ \E k \in Extras(d) : NameAt(d, k) = name

\* The top-level member called name is present and holds one of the values.
Holds(d, name, values) ==
    d.top = "obj" /\ \E k \in Extras(d) : NameAt(d, k) = name /\ ValueAt(d, k) \in values

\* The values that are a bool, and those that are a u32.
BoolTags == { "true", "false" }
U32Tags == { "0", "100", "max" }

\* The u32 of U32Tags as Display prints it.
U32Text(tag) == IF tag = "max" THEN Str(U32MaxText) ELSE tag

\* The piece is one of those the body is made of.
Contains(body, piece) == \E k \in 1..Len(body) : body[k] = piece

RejectedPrefix == "MITIGATED: Payload rejected due to unexpected fields. Error: "

\* serde's message for the unknown top-level field called name, at some column.
NamesUnknownField(text, name) ==
    \E col \in 1..200 :
        text = "unknown field " \o Quoted(name) \o ", expected " \o Quoted("equipment")
                    \o " or " \o Quoted("location") \o " at line 1 column " \o ToString(col)

\* The first top-level member that is neither equipment nor location.
FirstExtra(d) == CHOOSE k \in Extras(d) : \A m \in Extras(d) : k <= m

\* C1: a document whose top-level fields are a strict superset of
\* {equipment, location} is answered by the secure endpoint with 400 and the
\* unexpected-fields message, never with 200 or 422, and its call never gets
\* to the range check; when equipment and location are valid the error names
\* the first undeclared field.
C1_SupersetRejectedByStrictBinding ==
    \A w \in Workers :
        (endpoint[w] = "secure" /\ CarriesDocument(sent[w]) /\ StrictSuperset(sent[w])) =>
            /\ pc[w] \notin { "validate", "respond" }
            /\ Done(w) =>
                /\ response[w].status = 400
                /\ response[w].body[1] = RejectedPrefix
                /\ DeclaredValues(sent[w]) =>
                      NamesUnknownField(response[w].body[2],
                                        NameAt(sent[w], FirstExtra(sent[w])))

C1_Witness ==
    /\ Done(1) /\ endpoint[1] = "secure" /\ CarriesDocument(sent[1])
    /\ sent[1].layout = << "E", "L", "X" >> /\ sent[1].xname = "isAdmin"
    /\ sent[1].xval = "true" /\ DeclaredValues(sent[1])
    /\ response[1].status = 400

\* C2: the secure endpoint answers 400, and never 200, to a document that
\* carries a field outside the declared schema, at the top level or inside
\* equipment or location.
C2_UndeclaredFieldsRejectedEverywhere ==
    \A w \in Workers :
        (Done(w) /\ endpoint[w] = "secure" /\ CarriesDocument(sent[w])
            /\ HasDeclared(sent[w]) /\ (Extras(sent[w]) # {} \/ NestedExtra(sent[w]))) =>
            response[w].status = 400

\* The secure endpoint has accepted a document with an undeclared field
\* inside equipment.
C2_NestedAccepted ==
    /\ Done(1) /\ endpoint[1] = "secure" /\ CarriesDocument(sent[1])
    /\ sent[1].equip = "nested" /\ sent[1].layout = << "E", "L" >>
    /\ sent[1].nname = "isAdmin" /\ sent[1].nval = "true"
    /\ response[1].status = 200

\* No two of the extra top-level members have the same name.
DistinctExtras(d) == \A k, m \in Extras(d) : k # m => NameAt(d, k) # NameAt(d, m)

\* Each of isAdmin and gold is present at most once, isAdmin holding a bool
\* or null and gold a u32 or null.
TypedExtras(d) ==
    /\ \A k \in Extras(d) :
          /\ NameAt(d, k) = "isAdmin" => ValueAt(d, k) \in BoolTags \cup { "null" }
          /\ NameAt(d, k) = "gold" => ValueAt(d, k) \in U32Tags \cup { "null" }
    /\ \A k, m \in Extras(d) :
          (k # m /\ NameAt(d, k) = NameAt(d, m)) => NameAt(d, k) \notin { "isAdmin", "gold" }

\* C3 as stated: the vulnerable endpoint answers 200 to every strict superset
\* of {equipment, location} with valid equipment and location, whatever the
\* extra fields (each given once) are called and hold.
C3_PermissiveAcceptsAnySuperset ==
    \A w \in Workers :
        (Done(w) /\ endpoint[w] = "vulnerable" /\ CarriesDocument(sent[w])
            /\ StrictSuperset(sent[w]) /\ DistinctExtras(sent[w])
            /\ DeclaredValues(sent[w])) =>
            response[w].status = 200

\* C3, amended: the vulnerable endpoint answers 200 to such a document when
\* isAdmin, if given, holds a bool or null and gold, if given, a u32 or null,
\* each at most once, whatever the other extra fields are called and hold;
\* otherwise it answers 400 with the deserialization error.
C3_PermissiveAcceptsTypedSuperset ==
    \A w \in Workers :
        (Done(w) /\ endpoint[w] = "vulnerable" /\ CarriesDocument(sent[w])
            /\ StrictSuperset(sent[w]) /\ DeclaredValues(sent[w])) =>
            IF TypedExtras(sent[w])
            THEN response[w].status = 200
            ELSE /\ response[w].status = 400
                 /\ response[w].body[1] = "JSON Deserialization Error: "

C3_Witness ==
    /\ Done(1) /\ endpoint[1] = "vulnerable" /\ CarriesDocument(sent[1])
    /\ sent[1].layout = << "E", "X", "L" >> /\ sent[1].xname = "foo"
    /\ sent[1].xval = "obj" /\ DeclaredValues(sent[1])
    /\ response[1].status = 200

\* C4: two payloads that differ only in the value an undeclared field holds
\* (a top-level member other than equipment and location, or a member put
\* inside equipment or location) get the same status and the same body from
\* the secure endpoint.
C4_ValueOfUndeclaredFieldNotObservable ==
    \A w \in Workers :
        (Done(w) /\ endpoint[w] = "secure" /\ CarriesDocument(sent[w])
            /\ (Extras(sent[w]) # {} \/ NestedExtra(sent[w]))) =>
            \A f \in { "xval", "yval", "nval" }, v \in { "true", "str", "longstr" } :
                secure_state_update(user_id[w], PlayerStateOf([sent[w] EXCEPT ![f] = v]))
                    = response[w]

\* A rejection whose text depends on how long the value of an undeclared
\* field inside equipment is.
C4_LengthObserved ==
    /\ Done(1) /\ endpoint[1] = "secure" /\ CarriesDocument(sent[1])
    /\ sent[1].equip = "nested" /\ sent[1].nval = "str"
    /\ response[1].status = 400
    /\ secure_state_update(user_id[1], PlayerStateOf([sent[1] EXCEPT !.nval = "longstr"]))
            # response[1]

\* items[2] as submitted is 21 or more.
SubmittedAbove(d) == d.equip = "max" \/ d.sword >= 21

\* C5: once a payload is bound by the secure endpoint, the response is 200
\* when the submitted items[2] is at most 20 and 422 with the sword-level
\* message when it is 21 or more, whatever the other items and the location
\* are; a document of exactly the declared schema is bound.
C5_SwordLevelBoundary ==
    \A w \in Workers :
        (Done(w) /\ endpoint[w] = "secure") =>
            /\ (CarriesDocument(sent[w]) /\ ExactlyDeclared(sent[w])) => player_state[w] # NoState
            /\ player_state[w] # NoState =>
                  IF SubmittedAbove(sent[w])
                  THEN response[w] =
                          HttpResponse(422, << "MITIGATED: Invalid item level detected. Sword level cannot exceed 20." >>)
                  ELSE response[w].status = 200

C5_Witness ==
    /\ Done(1) /\ endpoint[1] = "secure" /\ ExactlyDeclared(sent[1])
    /\ sent[1].sword = 21 /\ sent[1].equip = "ok" /\ sent[1].others = 3 /\ sent[1].loc = "ok2"
    /\ response[1].status = 422

\* C6: a playerState that is not padded standard base64 is answered with 400
\* and the invalid-encoding message by either endpoint, the call going from
\* the decoding straight to its response: nothing is decoded, nothing bound.
C6_MalformedBase64Rejected ==
    \A w \in Workers :
        (pc[w] # "idle" /\ NotBase64(sent[w])) =>
            /\ pc[w] \in { "decode", "done" }
            /\ decoded_bytes[w] = << >>
            /\ player_state[w] = NoState
            /\ Done(w) => response[w] = HttpResponse(400, << "Invalid Base64 data" >>)

C6_Witness ==
    /\ Done(1) /\ endpoint[1] = "vulnerable" /\ sent[1].wire = "badbits" /\ NotBase64(sent[1])
    /\ response[1].status = 400

\* C7: a document of exactly the declared schema whose items[2] is in 0..20,
\* posted as the base64 of its JSON to the secure endpoint, is answered with
\* 200 and a body that gives the request's user_id and the items[2] sent.
C7_RoundTripEchoesSwordLevel ==
    \A w \in Workers :
        (Done(w) /\ endpoint[w] = "secure" /\ CarriesDocument(sent[w])
            /\ ExactlyDeclared(sent[w]) /\ sent[w].equip = "ok" /\ sent[w].sword <= 20) =>
            response[w] =
                HttpResponse(200, << "Player state for user ", ToString(user_id[w]),
                                     " securely updated. Sword level is now: ",
                                     ToString(sent[w].sword), "." >>)

C7_Witness ==
    /\ Done(1) /\ endpoint[1] = "secure" /\ CarriesDocument(sent[1]) /\ ExactlyDeclared(sent[1])
    /\ sent[1].equip = "ok" /\ sent[1].sword = 20 /\ user_id[1] = 2
    /\ response[1].status = 200

\* C8 as stated: a 200 of the vulnerable endpoint has the admin alert exactly
\* when isAdmin is present and true, and the gold alert exactly when gold is
\* present, whatever it holds.
C8_AlertsIffFieldPresent ==
    \A w \in Workers :
        (Done(w) /\ endpoint[w] = "vulnerable" /\ response[w].status = 200
            /\ CarriesDocument(sent[w])) =>
            /\ Contains(response[w].body, AdminAlert) <=> Holds(sent[w], "isAdmin", { "true" })
            /\ Contains(response[w].body, GoldAlert) <=> Present(sent[w], "gold")

\* C8, amended: a 200 of the vulnerable endpoint has the admin alert exactly
\* when isAdmin is present and true, and the gold alert, with the amount,
\* exactly when gold is present and holds a number (0 included), not null; a
\* 200 of the secure endpoint has the sword-level message alone.
C8_AlertsIffFieldSet ==
    \A w \in Workers :
        (Done(w) /\ response[w].status = 200 /\ CarriesDocument(sent[w])) =>
            IF endpoint[w] = "vulnerable"
            THEN /\ Contains(response[w].body, AdminAlert)
                        <=> Holds(sent[w], "isAdmin", { "true" })
                 /\ Contains(response[w].body, GoldAlert) <=> Holds(sent[w], "gold", U32Tags)
                 /\ \A v \in U32Tags :
                        Holds(sent[w], "gold", { v }) =>
                            response[w].body[Len(response[w].body) - 1] = U32Text(v)
            ELSE /\ Len(response[w].body) = 5
                 /\ ~Contains(response[w].body, AdminAlert)
                 /\ ~Contains(response[w].body, GoldAlert)

C8_Witness ==
    /\ Done(1) /\ endpoint[1] = "vulnerable" /\ CarriesDocument(sent[1])
    /\ sent[1].layout = << "E", "L", "X", "Y" >>
    /\ sent[1].xname = "isAdmin" /\ sent[1].xval = "true"
    /\ sent[1].yname = "gold" /\ sent[1].yval = "0"
    /\ response[1].status = 200
    /\ Contains(response[1].body, AdminAlert) /\ Contains(response[1].body, GoldAlert)

\* The response the request of worker w gets when it is handled alone.
Alone(w) ==
    IF endpoint[w] = "vulnerable" THEN vulnerable_state_update(user_id[w], req_body[w])
    ELSE secure_state_update(user_id[w], req_body[w])

\* C9: whatever the other workers do meanwhile and did before, the response
\* of a call is the one its endpoint, user_id and playerState get alone, and
\* a worker between two calls holds nothing of the calls it served.
C9_NoCrossTalk ==
    \A w \in Workers :
        /\ Done(w) => response[w] = Alone(w)
        /\ pc[w] = "idle" =>
              /\ decoded_bytes[w] = << >> /\ player_state[w] = NoState
              /\ response[w] = NoResponse

C9_Witness ==
    /\ Done(1) /\ Done(2)
    /\ endpoint[1] = "secure" /\ endpoint[2] = "vulnerable"
    /\ sent[1] = sent[2] /\ StrictSuperset(sent[1]) /\ sent[1].sword = 21
    /\ response[1].status = 400 /\ response[2].status = 200

\* C10: the secure endpoint binds only what it has decoded, checks the range
\* only of what it has bound and formats only what has passed the range
\* check; a payload with an unexpected top-level field and items[2] above 20
\* is answered with 400 (unexpected fields) by the binding and never gets to
\* the range check.
C10_StagesInOrder ==
    \A w \in Workers :
        endpoint[w] = "secure" =>
            /\ pc[w] \in { "deserialize", "validate", "respond" } =>
                  /\ B64Decode(req_body[w]).ok
                  /\ decoded_bytes[w] = B64Decode(req_body[w]).bytes
                  /\ response[w] = NoResponse
            /\ pc[w] = "deserialize" => player_state[w] = NoState
            /\ pc[w] \in { "validate", "respond" } => player_state[w] # NoState
            /\ pc[w] = "respond" => ~SubmittedAbove(sent[w])
            /\ (CarriesDocument(sent[w]) /\ StrictSuperset(sent[w])
                    /\ SubmittedAbove(sent[w])) =>
                  /\ pc[w] \notin { "validate", "respond" }
                  /\ Done(w) => (response[w].status = 400
                                    /\ response[w].body[1] = RejectedPrefix)

C10_Witness ==
    /\ Done(1) /\ endpoint[1] = "secure" /\ CarriesDocument(sent[1])
    /\ sent[1].layout = << "E", "L", "X" >> /\ sent[1].xname = "gold"
    /\ DeclaredValues(sent[1]) /\ sent[1].sword = 21
    /\ response[1].status = 400 /\ player_state[1] = NoState

=============================================================================
